---------------------------- MODULE Spec2Model ----------------------------
(***************************************************************************)
(* A model of async-graphql-parser/src/value.rs: the GraphQL Value type,   *)
(* its equality (PartialEq), its rendering (Display, write_quoted), its    *)
(* two conversions to a JSON tree (Serialize, From<Value>), the conversion *)
(* back (From<serde_json::Value>) and the duplication of an upload         *)
(* (Clone for UploadValue).                                                *)
(*                                                                         *)
(* Text is a sequence of Unicode code points (a Rust `char` is a code      *)
(* point).  A BTreeMap is the sequence of its (key, value) entries in      *)
(* ascending key order, which is the order its iterator yields.  A         *)
(* serde_json::Number is modelled by its integer values.                   *)
(***************************************************************************)
EXTENDS Integers, Sequences, FiniteSets, TLC

VARIABLES
    a,          \* a Value: the receiver of the operation applied
    b,          \* a second Value: the other operand of eq
    res,        \* the outcome of the last operation applied
    todoA,      \* object construction: entries still to insert into a
    todoB,      \* object construction: entries still to insert into b
    logA,       \* object construction: keys inserted into a, in order
    logB,       \* object construction: keys inserted into b, in order
    files,      \* the File objects of the upload values: handle -> record
    pos,        \* the offset of each open file description
    others,     \* descriptors the process holds besides the uploads'
    outcome     \* how the last clone() ended

vars == <<a, b, res, todoA, todoB, logA, logB, files, pos, others, outcome>>

---------------------------------------------------------------------------
(* Characters the code names.                                              *)

TAB == 9
LF == 10
CR == 13
SPACE == 32
QUOTE == 34
DOLLAR == 36
BACKSLASH == 92
BMP_LAST == 65535
PAD_WIDTH == 4

\* Text literals of the code, as code points.
T_null == <<110, 117, 108, 108>>
T_true == <<116, 114, 117, 101>>
T_false == <<102, 97, 108, 115, 101>>
T_comma_space == <<44, 32>>
T_colon_space == <<58, 32>>
T_lbracket == <<91>>
T_rbracket == <<93>>
T_lbrace == <<123>>
T_rbrace == <<125>>
T_backslash_u == <<92, 117>>

---------------------------------------------------------------------------
(* The Value enum and UploadValue.                                         *)

None == [some |-> FALSE]
Some(x) == [some |-> TRUE, val |-> x]

UploadValue(filename, content_type, content) ==
    [filename |-> filename, content_type |-> content_type, content |-> content]

Null == [tag |-> "Null"]
Variable(name) == [tag |-> "Variable", name |-> name]
Number(n) == [tag |-> "Number", num |-> n]
String(s) == [tag |-> "String", str |-> s]
Boolean(v) == [tag |-> "Boolean", bool |-> v]
Enum(name) == [tag |-> "Enum", name |-> name]
List(items) == [tag |-> "List", items |-> items]
Object(entries) == [tag |-> "Object", entries |-> entries]
Upload(u) == [tag |-> "Upload", upload |-> u]

\* Value::default()
Default == Null

---------------------------------------------------------------------------
(* std::collections::BTreeMap<String, _> as the code uses it.              *)

\* Ord for String: lexicographic on the code points.
RECURSIVE StrLess(_, _)
StrLess(x, y) ==
    IF y = <<>> THEN FALSE
    ELSE IF x = <<>> THEN TRUE
    ELSE IF Head(x) # Head(y) THEN Head(x) < Head(y)
    ELSE StrLess(Tail(x), Tail(y))

BTreeEmpty == <<>>

BTreeLen(m) == Len(m)

BTreeHas(m, k) == \E i \in 1..Len(m) : m[i][1] = k

\* BTreeMap::get, applied where the key is present.
BTreeGet(m, k) == m[CHOOSE i \in 1..Len(m) : m[i][1] = k][2]

\* An insertion that forgets the order of the keys: the entry goes last.
BTreeInsertUnordered(m, k, v) ==
    IF BTreeHas(m, k)
    THEN [i \in 1..Len(m) |-> IF m[i][1] = k THEN <<k, v>> ELSE m[i]]
    ELSE Append(m, <<k, v>>)

\* BTreeMap::insert: replaces the value of a present key, and otherwise
\* places the entry after every smaller key.
BTreeInsert(m, k, v) ==
    IF BTreeHas(m, k)
    THEN [i \in 1..Len(m) |-> IF m[i][1] = k THEN <<k, v>> ELSE m[i]]
    ELSE LET n == Cardinality({ i \in 1..Len(m) : StrLess(m[i][1], k) })
         IN SubSeq(m, 1, n) \o <<<<k, v>>>> \o SubSeq(m, n + 1, Len(m))

\* FromIterator (collect): the entries inserted one by one.
RECURSIVE Collect(_)
Collect(pairs) ==
    IF pairs = <<>> THEN BTreeEmpty
    ELSE LET last == pairs[Len(pairs)]
         IN BTreeInsert(Collect(SubSeq(pairs, 1, Len(pairs) - 1)), last[1], last[2])

---------------------------------------------------------------------------
(* impl PartialEq for Value.                                               *)

\* The Upload arm, comparing more than the code does.
UploadEqWithType(x, y) == x.filename = y.filename /\ x.content_type = y.content_type

\* (Upload(a), Upload(b)) => a.filename == b.filename
UploadEq(x, y) == x.filename = y.filename

RECURSIVE eq(_, _)
eq(x, y) ==
    IF x.tag # y.tag THEN FALSE
    ELSE CASE x.tag = "Variable" -> x.name = y.name
           [] x.tag = "Number" -> x.num = y.num
           [] x.tag = "String" -> x.str = y.str
           [] x.tag = "Boolean" -> x.bool = y.bool
           [] x.tag = "Null" -> TRUE
           [] x.tag = "Enum" -> x.name = y.name
           [] x.tag = "List" ->
                IF Len(x.items) # Len(y.items) THEN FALSE
                ELSE \A i \in 1..Len(x.items) : eq(x.items[i], y.items[i])
           [] x.tag = "Object" ->
                IF BTreeLen(x.entries) # BTreeLen(y.entries) THEN FALSE
                ELSE \A i \in 1..Len(x.entries) :
                        LET key == x.entries[i][1]
                            a_value == x.entries[i][2]
                        IN IF BTreeHas(y.entries, key)
                           THEN eq(a_value, BTreeGet(y.entries, key))
                           ELSE FALSE
           [] x.tag = "Upload" -> UploadEq(x.upload, y.upload)

---------------------------------------------------------------------------
(* Formatting of integers, as `{}` and `{:04}` do it.                      *)

Digit(d) == <<48 + d>>

\* The decimal digits of a natural number.
RECURSIVE Decimal(_)
Decimal(n) == IF n < 10 THEN Digit(n) ELSE Decimal(n \div 10) \o Digit(n % 10)

\* Display of a serde_json::Number holding an integer.
NumberText(n) == IF n < 0 THEN <<45>> \o Decimal(0 - n) ELSE Decimal(n)

\* Zero padding on the left up to a minimum width; longer text is kept whole.
RECURSIVE ZeroPad(_, _)
ZeroPad(t, width) == IF Len(t) >= width THEN t ELSE ZeroPad(<<48>> \o t, width)

\* write!(f, "\\u{:04}", c as u32)
EscapeCode(c) == T_backslash_u \o ZeroPad(Decimal(c), PAD_WIDTH)

---------------------------------------------------------------------------
(* write_quoted and impl fmt::Display for Value.                           *)

\* A match that backslash-escapes the quote and the backslash.
QuotedCharEscaping(c) ==
    IF c = CR THEN <<CR>>
    ELSE IF c = LF THEN <<LF>>
    ELSE IF c = TAB THEN <<TAB>>
    ELSE IF c = QUOTE THEN <<BACKSLASH, QUOTE>>
    ELSE IF c = BACKSLASH THEN <<BACKSLASH, BACKSLASH>>
    ELSE IF SPACE <= c /\ c <= BMP_LAST THEN <<c>>
    ELSE EscapeCode(c)

\* The match of write_quoted on one character; the arms in the code's order.
QuotedChar(c) ==
    IF c = CR THEN <<CR>>
    ELSE IF c = LF THEN <<LF>>
    ELSE IF c = TAB THEN <<TAB>>
    ELSE IF c = QUOTE THEN <<QUOTE>>
    ELSE IF c = BACKSLASH THEN <<BACKSLASH>>
    ELSE IF SPACE <= c /\ c <= BMP_LAST THEN <<c>>
    ELSE EscapeCode(c)

RECURSIVE QuotedChars(_)
QuotedChars(s) == IF s = <<>> THEN <<>> ELSE QuotedChar(Head(s)) \o QuotedChars(Tail(s))

write_quoted(s) == <<QUOTE>> \o QuotedChars(s) \o <<QUOTE>>

\* A Variable arm that leaves the marker out.
FmtVariableBare(name) == name

\* Value::Variable(name) => write!(f, "${}", name)
FmtVariable(name) == <<DOLLAR>> \o name

RECURSIVE fmt(_), FmtRest(_, _), FmtEntries(_, _)

\* for item in &items[1..] { ", " item }
FmtRest(items, i) ==
    IF i > Len(items) THEN <<>>
    ELSE T_comma_space \o fmt(items[i]) \o FmtRest(items, i + 1)

\* for (name, value) in items { [", "] name ": " value }
FmtEntries(entries, i) ==
    IF i > Len(entries) THEN <<>>
    ELSE (IF i = 1 THEN <<>> ELSE T_comma_space)
         \o entries[i][1] \o T_colon_space \o fmt(entries[i][2])
         \o FmtEntries(entries, i + 1)

fmt(v) ==
    CASE v.tag = "Variable" -> FmtVariable(v.name)
      [] v.tag = "Number" -> NumberText(v.num)
      [] v.tag = "String" -> write_quoted(v.str)
      [] v.tag = "Boolean" -> IF v.bool THEN T_true ELSE T_false
      [] v.tag = "Null" -> T_null
      [] v.tag = "Enum" -> v.name
      [] v.tag = "List" ->
            T_lbracket
            \o (IF v.items = <<>> THEN <<>>
                ELSE fmt(v.items[1]) \o FmtRest(v.items, 2))
            \o T_rbracket
      [] v.tag = "Object" -> T_lbrace \o FmtEntries(v.entries, 1) \o T_rbrace
      [] v.tag = "Upload" -> T_null

---------------------------------------------------------------------------
(* serde_json::Value and the conversions.                                  *)

JNull == [j |-> "Null"]
JBool(v) == [j |-> "Bool", bool |-> v]
JNumber(n) == [j |-> "Number", num |-> n]
JString(s) == [j |-> "String", str |-> s]
JArray(items) == [j |-> "Array", items |-> items]
JObject(entries) == [j |-> "Object", entries |-> entries]

\* A Variable arm that keeps the marker, as Serialize does.
VariableIntoJsonMarked(name) == JString(<<DOLLAR>> \o name)

\* Value::Variable(name) => name.into()
VariableIntoJson(name) == JString(name)

\* impl From<Value> for serde_json::Value
RECURSIVE IntoJson(_)
IntoJson(v) ==
    CASE v.tag = "Null" -> JNull
      [] v.tag = "Variable" -> VariableIntoJson(v.name)
      [] v.tag = "Number" -> JNumber(v.num)
      [] v.tag = "String" -> JString(v.str)
      [] v.tag = "Boolean" -> JBool(v.bool)
      [] v.tag = "Enum" -> JString(v.name)
      [] v.tag = "List" -> JArray([i \in 1..Len(v.items) |-> IntoJson(v.items[i])])
      [] v.tag = "Object" ->
            JObject(Collect([i \in 1..Len(v.entries) |->
                        <<v.entries[i][1], IntoJson(v.entries[i][2])>>]))
      [] v.tag = "Upload" -> JNull

\* A String arm that takes the text for an enum name.
JsonStringIntoEnum(s) == Enum(s)

\* serde_json::Value::String(s) => Value::String(s)
JsonStringIntoValue(s) == String(s)

\* impl From<serde_json::Value> for Value
RECURSIVE FromJson(_)
FromJson(x) ==
    CASE x.j = "Null" -> Null
      [] x.j = "Bool" -> Boolean(x.bool)
      [] x.j = "Number" -> Number(x.num)
      [] x.j = "String" -> JsonStringIntoValue(x.str)
      [] x.j = "Array" -> List([i \in 1..Len(x.items) |-> FromJson(x.items[i])])
      [] x.j = "Object" ->
            Object(Collect([i \in 1..Len(x.entries) |->
                        <<x.entries[i][1], FromJson(x.entries[i][2])>>]))

\* impl serde::Serialize for Value, into serde_json's tree: serialize_none
\* gives null, serialize_str a string, serialize_seq an array and
\* serialize_map an object.
RECURSIVE serialize(_)
serialize(v) ==
    CASE v.tag = "Null" -> JNull
      [] v.tag = "Variable" -> JString(<<DOLLAR>> \o v.name)
      [] v.tag = "Number" -> JNumber(v.num)
      [] v.tag = "String" -> JString(v.str)
      [] v.tag = "Boolean" -> JBool(v.bool)
      [] v.tag = "Enum" -> JString(v.name)
      [] v.tag = "List" -> JArray([i \in 1..Len(v.items) |-> serialize(v.items[i])])
      [] v.tag = "Object" ->
            JObject(Collect([i \in 1..Len(v.entries) |->
                        <<v.entries[i][1], serialize(v.entries[i][2])>>]))
      [] v.tag = "Upload" -> JNull

---------------------------------------------------------------------------
(* The inputs: every Value of a bounded number of nodes over given atoms.  *)

MaxNodes == 3
MaxPairNodes == 2
MaxStrLen == 2

N_empty == <<>>
N_a == <<97>>
N_b == <<98>>
N_ab == <<97, 98>>
N_bel == <<7>>
N_bel_escaped == <<92, 117, 48, 48, 48, 55>>
N_png == <<112, 110, 103>>

RECURSIVE SortKeys(_)
SortKeys(K) ==
    IF K = {} THEN <<>>
    ELSE LET m == CHOOSE x \in K : \A y \in K \ {x} : StrLess(x, y)
         IN <<m>> \o SortKeys(K \ {m})

\* The ascending sequences of n distinct keys.
KeySeqs(keys, n) == { SortKeys(K) : K \in { S \in SUBSET keys : Cardinality(S) = n } }

RECURSIVE Sized(_, _, _), Forest(_, _, _)

\* The sequences of values of m nodes in all.
Forest(atoms, keys, m) ==
    IF m = 0 THEN { <<>> }
    ELSE UNION { { <<x>> \o r : x \in Sized(atoms, keys, k),
                                r \in Forest(atoms, keys, m - k) } : k \in 1..m }

\* The values of exactly n nodes; an Object's entries ascend by key.
Sized(atoms, keys, n) ==
    (IF n = 1 THEN atoms ELSE {})
    \cup { List(f) : f \in Forest(atoms, keys, n - 1) }
    \cup UNION { { Object([i \in 1..Len(f) |-> <<ks[i], f[i]>>]) :
                        ks \in KeySeqs(keys, Len(f)) } :
                 f \in Forest(atoms, keys, n - 1) }

ValuesUpTo(atoms, keys, n) == UNION { Sized(atoms, keys, k) : k \in 1..n }

Upload1 == Upload(UploadValue(N_a, None, 1))
Upload2 == Upload(UploadValue(N_a, Some(N_png), 2))
Upload3 == Upload(UploadValue(N_b, None, 1))

Atoms ==
    { Null, Boolean(TRUE), Boolean(FALSE), Number(0), Number(0 - 12),
      String(N_empty), String(N_a), Enum(N_a), Enum(N_ab), Variable(N_a),
      Variable(N_b), Upload1 }

Keys == { N_a, N_b }

Values == ValuesUpTo(Atoms, Keys, MaxNodes)

NoResult == [op |-> "none"]

\* The variables of the other specifications, at rest.
NoObjects == todoA = {} /\ todoB = {} /\ logA = <<>> /\ logB = <<>>
NoFiles == files = <<>> /\ pos = <<>> /\ others = 0 /\ outcome = "none"

---------------------------------------------------------------------------
(* The operations on one Value.                                            *)

InitValue ==
    /\ a \in Values
    /\ b = Null
    /\ res = NoResult
    /\ NoObjects
    /\ NoFiles

\* format!("{}", a)
Display ==
    /\ res' = [op |-> "fmt", text |-> fmt(a)]
    /\ UNCHANGED <<a, b, todoA, todoB, logA, logB, files, pos, others, outcome>>

\* serde_json::Value::from(a.clone())
ConvertIntoJson ==
    /\ res' = [op |-> "into_json", json |-> IntoJson(a)]
    /\ UNCHANGED <<a, b, todoA, todoB, logA, logB, files, pos, others, outcome>>

\* Value::from(json), of the tree the last conversion gave
ConvertFromJson ==
    /\ res.op = "into_json"
    /\ res' = [op |-> "from_json", value |-> FromJson(res.json)]
    /\ UNCHANGED <<a, b, todoA, todoB, logA, logB, files, pos, others, outcome>>

\* serde_json::to_value(&a)
Serialize ==
    /\ res' = [op |-> "serialize", json |-> serialize(a)]
    /\ UNCHANGED <<a, b, todoA, todoB, logA, logB, files, pos, others, outcome>>

NextValue == Display \/ ConvertIntoJson \/ ConvertFromJson \/ Serialize

Spec == InitValue /\ [][NextValue]_vars

---------------------------------------------------------------------------
(* Properties of the operations on one Value.                              *)

\* Built only from Null, Number, String, Boolean, and List/Object over those.
RECURSIVE Plain(_)
Plain(v) ==
    CASE v.tag \in {"Null", "Number", "String", "Boolean"} -> TRUE
      [] v.tag = "List" -> \A i \in 1..Len(v.items) : Plain(v.items[i])
      [] v.tag = "Object" -> \A i \in 1..Len(v.entries) : Plain(v.entries[i][2])
      [] OTHER -> FALSE

\* Holds an Enum or a Variable at some depth.
RECURSIVE HasNamed(_)
HasNamed(v) ==
    CASE v.tag \in {"Enum", "Variable"} -> TRUE
      [] v.tag = "List" -> \E i \in 1..Len(v.items) : HasNamed(v.items[i])
      [] v.tag = "Object" -> \E i \in 1..Len(v.entries) : HasNamed(v.entries[i][2])
      [] OTHER -> FALSE

\* The value and every value nested in it.
RECURSIVE SubValues(_)
SubValues(v) ==
    {v} \cup
    CASE v.tag = "List" -> UNION { SubValues(v.items[i]) : i \in 1..Len(v.items) }
      [] v.tag = "Object" -> UNION { SubValues(v.entries[i][2]) : i \in 1..Len(v.entries) }
      [] OTHER -> {}

\* The texts of a sequence with a separator between neighbours.
RECURSIVE Join(_, _)
Join(texts, sep) ==
    IF Len(texts) = 0 THEN <<>>
    ELSE IF Len(texts) = 1 THEN texts[1]
    ELSE texts[1] \o sep \o Join(Tail(texts), sep)

\* C4: a value built only from Null, Number, String, Boolean and List/Object
\* over those, converted to a JSON tree and back, is equal to the original
\* under PartialEq (in both argument orders).
C4_PlainRoundTrip ==
    (res.op = "from_json" /\ Plain(a)) => (eq(res.value, a) /\ eq(a, res.value))

C4_Witness ==
    /\ res.op = "from_json"
    /\ a = Object(<<<<N_b, List(<<String(N_a)>>)>>>>)
    /\ res.value = a

\* C5: Enum(x) and Variable(x) convert to the JSON string x, without a `$`
\* marker; converting back gives String(x), which is not equal to the
\* original; and a List or Object holding an Enum or Variable at any depth
\* does not come back equal either.
C5_NamedNotRoundTrip ==
    /\ (res.op = "into_json" /\ a.tag \in {"Enum", "Variable"})
            => res.json = JString(a.name)
    /\ (res.op = "from_json" /\ a.tag \in {"Enum", "Variable"})
            => res.value = String(a.name)
    /\ (res.op = "from_json" /\ HasNamed(a))
            => (~eq(res.value, a) /\ ~eq(a, res.value))

C5_Witness ==
    /\ res.op = "from_json"
    /\ a = List(<<Object(<<<<N_a, Variable(N_b)>>>>)>>)
    /\ res.value = List(<<Object(<<<<N_a, String(N_b)>>>>)>>)

\* The literal the claim gives for a value of a variant other than String,
\* Number and the non-empty Object.
LiteralOf(v, text) ==
    CASE v.tag = "Null" -> text = T_null
      [] v.tag = "Boolean" -> text = (IF v.bool THEN T_true ELSE T_false)
      [] v.tag = "Enum" -> text = v.name
      [] v.tag = "Variable" -> text = <<DOLLAR>> \o v.name
      [] v.tag = "Upload" -> text = T_null
      [] v.tag = "List" ->
            text = T_lbracket
                   \o Join([i \in 1..Len(v.items) |-> fmt(v.items[i])], T_comma_space)
                   \o T_rbracket
      [] v.tag = "Object" /\ Len(v.entries) = 0 -> text = T_lbrace \o T_rbrace
      [] OTHER -> TRUE

\* C9: Null renders as `null`, a Boolean as `true`/`false`, Enum(n) as n,
\* Variable(n) as `$` and n, an Upload as `null`, a List as `[`, its
\* elements' renderings joined by ", ", and `]`, the empty Object as `{}`;
\* and so for every value nested in the one rendered.
C9_LiteralSyntax ==
    res.op = "fmt" =>
        /\ LiteralOf(a, res.text)
        /\ \A s \in SubValues(a) : LiteralOf(s, fmt(s))

C9_Witness ==
    /\ res.op = "fmt"
    /\ a = List(<<Variable(N_a), Object(<<>>)>>)
    /\ res.text = <<91, 36, 97, 44, 32, 123, 125, 93>>

\* C10: Serialize and From<Value> for serde_json::Value give the same JSON
\* tree for every Value.
C10_SerializeAgrees ==
    res.op = "serialize" => res.json = IntoJson(a)

---------------------------------------------------------------------------
(* write_quoted on strings over sample characters of every class.          *)

CharSamples ==
    { 0, 7, TAB, LF, CR, 31, SPACE, QUOTE, BACKSLASH, 97, 127, 55295,
      BMP_LAST, 65536, 1114111 }

RECURSIVE StringsUpTo(_, _)
StringsUpTo(chars, n) ==
    IF n = 0 THEN { <<>> }
    ELSE LET shorter == StringsUpTo(chars, n - 1)
         IN shorter \cup { Append(s, c) : s \in shorter, c \in chars }

InitQuoted ==
    /\ a \in { String(s) : s \in StringsUpTo(CharSamples, MaxStrLen) }
    /\ b = Null
    /\ res = NoResult
    /\ NoObjects
    /\ NoFiles

NextQuoted == Display

SpecQuoted == InitQuoted /\ [][NextQuoted]_vars

RECURSIVE Pow10(_)
Pow10(k) == IF k = 0 THEN 1 ELSE 10 * Pow10(k - 1)

\* The decimal digits of c in a field of at least four digits, zero filled.
DecimalField(c) ==
    LET digits == CHOOSE k \in 1..10 : c < Pow10(k) /\ (k = 1 \/ Pow10(k - 1) <= c)
        w == IF digits < 4 THEN 4 ELSE digits
    IN [i \in 1..w |-> 48 + ((c \div Pow10(w - i)) % 10)]

\* The image the claim gives to one character.
ImageOf(c) ==
    IF c \in {CR, LF, TAB, QUOTE, BACKSLASH} THEN <<c>>
    ELSE IF c \in 32..65535 THEN <<c>>
    ELSE <<92, 117>> \o DecimalField(c)

RECURSIVE Images(_)
Images(s) ==
    IF Len(s) = 0 THEN <<>>
    ELSE Images(SubSeq(s, 1, Len(s) - 1)) \o ImageOf(s[Len(s)])

\* C7: the rendering of String(s) is a double quote, the image of each
\* character of s in order, and a double quote: CR, LF, TAB, the quote and
\* the backslash as themselves, every other character from U+0020 to U+FFFF
\* literally, every remaining one as backslash, `u` and its code point in
\* decimal in a field of four digits.
C7_QuotedText ==
    (res.op = "fmt" /\ a.tag = "String") =>
        res.text = <<34>> \o Images(a.str) \o <<34>>

C7_Witness ==
    /\ res.op = "fmt"
    /\ a = String(<<QUOTE, 65536>>)
    /\ res.text = <<34, 34, 92, 117, 54, 53, 53, 51, 54, 34>>

---------------------------------------------------------------------------
(* Operations on two Values.                                               *)

PairAtoms ==
    { Null, Boolean(TRUE), Number(0), String(N_a), String(N_bel),
      String(N_bel_escaped), Enum(N_a), Variable(N_a), Upload1, Upload2, Upload3 }

PairKeys == { N_a }

PairValues == ValuesUpTo(PairAtoms, PairKeys, MaxPairNodes)

InitPair ==
    /\ a \in PairValues
    /\ b \in PairValues
    /\ res = NoResult
    /\ NoObjects
    /\ NoFiles

\* a == b
Equals ==
    /\ res' = [op |-> "eq", out |-> eq(a, b)]
    /\ UNCHANGED <<a, b, todoA, todoB, logA, logB, files, pos, others, outcome>>

\* format!("{}", a) and format!("{}", b)
DisplayPair ==
    /\ res' = [op |-> "fmt_pair", text |-> fmt(a), text_b |-> fmt(b)]
    /\ UNCHANGED <<a, b, todoA, todoB, logA, logB, files, pos, others, outcome>>

NextPair == Equals \/ DisplayPair

SpecPair == InitPair /\ [][NextPair]_vars

\* C3: two Uploads are equal exactly when their filenames are, whatever
\* their content types and contents; an Upload and a value of another
\* variant are never equal, in either argument order.
C3_UploadEquality ==
    res.op = "eq" =>
        /\ (a.tag = "Upload" /\ b.tag = "Upload")
                => (res.out <=> (a.upload.filename = b.upload.filename))
        /\ ((a.tag = "Upload") # (b.tag = "Upload")) => ~res.out

C3_Witness ==
    /\ res.op = "eq"
    /\ a = Upload1
    /\ b = Upload2
    /\ res.out

NoUpload(v) == \A s \in SubValues(v) : s.tag # "Upload"

\* C8: two Values that hold no Upload and render to the same text are equal
\* under PartialEq.
C8_RenderingDetermines ==
    (res.op = "fmt_pair" /\ NoUpload(a) /\ NoUpload(b) /\ res.text = res.text_b)
        => eq(a, b)

---------------------------------------------------------------------------
(* Two Objects built by inserting entries in any order.                    *)

ObjectKeys == { N_a, N_ab, N_b }

ObjectFields == { Number(1), Number(2) }

\* The sets of entries with unique keys.
EntrySets ==
    UNION { { { <<k, f[k]>> : k \in K } : f \in [K -> ObjectFields] } :
            K \in SUBSET ObjectKeys }

InitObject ==
    /\ a = Object(BTreeEmpty)
    /\ b = Object(BTreeEmpty)
    /\ todoA \in EntrySets
    /\ todoB \in EntrySets
    /\ logA = <<>>
    /\ logB = <<>>
    /\ res = NoResult
    /\ NoFiles

\* map.insert(key, value) on the map of a
InsertA ==
    /\ \E e \in todoA :
        /\ a' = Object(BTreeInsert(a.entries, e[1], e[2]))
        /\ todoA' = todoA \ {e}
        /\ logA' = Append(logA, e)
    /\ res' = NoResult
    /\ UNCHANGED <<b, todoB, logB, files, pos, others, outcome>>

\* map.insert(key, value) on the map of b
InsertB ==
    /\ \E e \in todoB :
        /\ b' = Object(BTreeInsert(b.entries, e[1], e[2]))
        /\ todoB' = todoB \ {e}
        /\ logB' = Append(logB, e)
    /\ res' = NoResult
    /\ UNCHANGED <<a, todoA, logA, files, pos, others, outcome>>

NextObject == InsertA \/ InsertB \/ Equals \/ DisplayPair

SpecObject == InitObject /\ [][NextObject]_vars

\* The entries inserted so far, as a set.
Inserted(log) == { log[i] : i \in 1..Len(log) }

KeysOf(entries) == { e[1] : e \in entries }

FieldOf(entries, k) == (CHOOSE e \in entries : e[1] = k)[2]

\* `{`, the `key: value` pairs in ascending key order joined by ", ", `}`.
SortedObjectText(entries) ==
    LET ks == SortKeys(KeysOf(entries))
    IN T_lbrace
       \o Join([i \in 1..Len(ks) |-> ks[i] \o <<58, 32>> \o fmt(FieldOf(entries, ks[i]))],
               <<44, 32>>)
       \o T_rbrace

\* C6: two Objects built from the same set of entries with unique keys,
\* inserted in any two orders, are equal and render to the same text, the
\* `key: value` pairs in ascending key order joined by ", "; and any two
\* Objects are equal exactly when their key sets are the same and the
\* values under every key are equal.
C6_ObjectOrderIndependent ==
    /\ (res.op = "eq" /\ Inserted(logA) = Inserted(logB)) => res.out
    /\ (res.op = "fmt_pair" /\ Inserted(logA) = Inserted(logB))
            => res.text = res.text_b
    /\ res.op = "fmt_pair" =>
            /\ res.text = SortedObjectText(Inserted(logA))
            /\ res.text_b = SortedObjectText(Inserted(logB))
    /\ res.op = "eq" =>
            (res.out <=>
                /\ KeysOf(Inserted(logA)) = KeysOf(Inserted(logB))
                /\ \A k \in KeysOf(Inserted(logA)) :
                        eq(FieldOf(Inserted(logA), k), FieldOf(Inserted(logB), k)))

C6_Witness ==
    /\ logA = << <<N_b, Number(2)>>, <<N_a, Number(1)>> >>
    /\ logB = << <<N_a, Number(1)>>, <<N_b, Number(2)>> >>
    /\ todoA = {}
    /\ todoB = {}
    /\ res.op = "fmt_pair"
    /\ res.text = <<123, 97, 58, 32, 49, 44, 32, 98, 58, 32, 50, 125>>
    /\ res.text_b = res.text
    /\ eq(a, b)

---------------------------------------------------------------------------
(* impl Clone for UploadValue, over the files of the process.              *)
(*                                                                         *)
(* A File is a descriptor of an open file description; the description     *)
(* holds the offset.  File::try_clone duplicates the descriptor (dup): the *)
(* new File names the same description.  It fails when the process has no  *)
(* descriptor left.                                                        *)

FileLen == 3
MaxRead == 2
FdLimit == 3

\* The bytes of the uploaded file.
Content == [i \in 1..FileLen |-> i]

NewFile(desc) == [desc |-> desc, got |-> <<>>, eof |-> FALSE]

InitUpload ==
    /\ a = Upload(UploadValue(N_a, Some(N_png), 1))
    /\ b = Null
    /\ files = << NewFile(1) >>
    /\ pos = << 0 >>
    /\ others \in 0..(FdLimit - 1)
    /\ outcome = "none"
    /\ res = NoResult
    /\ NoObjects

Running == outcome # "panicked"

\* self.content.try_clone(): Ok(the new File) or Err.
try_clone(file) ==
    IF Len(files) + others < FdLimit
    THEN [ok |-> TRUE, file |-> NewFile(file.desc)]
    ELSE [ok |-> FALSE, err |-> "EMFILE"]

\* b = a.clone(): the fields cloned, and try_clone().unwrap() on the content.
Clone ==
    /\ Running
    /\ a.tag = "Upload"
    /\ LET r == try_clone(files[a.upload.content])
       IN /\ res' = [op |-> "try_clone", ok |-> r.ok]
          /\ IF r.ok
             THEN /\ files' = Append(files, r.file)
                  /\ b' = Upload(UploadValue(a.upload.filename, a.upload.content_type,
                                             Len(files) + 1))
                  /\ outcome' = "cloned"
             ELSE /\ outcome' = "panicked"
                  /\ UNCHANGED <<files, b>>
    /\ UNCHANGED <<a, todoA, todoB, logA, logB, pos, others>>

\* file.read(buf) with a buffer of n bytes, on the File h.
Read(h, n) ==
    /\ Running
    /\ ~files[h].eof
    /\ LET d == files[h].desc
           p == pos[d]
           k == IF FileLen - p < n THEN FileLen - p ELSE n
       IN /\ files' = [files EXCEPT ![h].got = @ \o SubSeq(Content, p + 1, p + k),
                                    ![h].eof = (k = 0)]
          /\ pos' = [pos EXCEPT ![d] = p + k]
    /\ res' = [op |-> "read", file |-> h]
    /\ UNCHANGED <<a, b, todoA, todoB, logA, logB, others, outcome>>

\* The process opens another file.
OpenOther ==
    /\ Running
    /\ Len(files) + others < FdLimit
    /\ others' = others + 1
    /\ UNCHANGED <<a, b, res, todoA, todoB, logA, logB, files, pos, outcome>>

\* The process closes another file.
CloseOther ==
    /\ Running
    /\ others > 0
    /\ others' = others - 1
    /\ UNCHANGED <<a, b, res, todoA, todoB, logA, logB, files, pos, outcome>>

NextUpload ==
    \/ Clone
    \/ \E h \in 1..Len(files) : \E n \in 1..MaxRead : Read(h, n)
    \/ OpenOther
    \/ CloseOther

SpecUpload == InitUpload /\ [][NextUpload]_vars

\* C1: the original and the duplicate have cursors of their own: the
\* offset a File reads at is the number of bytes that File has read, and a
\* File read to completion has got the whole content.
C1_IndependentCursors ==
    \A h \in 1..Len(files) :
        /\ pos[files[h].desc] = Len(files[h].got)
        /\ files[h].eof => files[h].got = Content

\* C2: when the file handle cannot be duplicated, clone() ends by handing
\* an I/O error to its caller, which keeps control.
C2_ErrorPropagated ==
    (res.op = "try_clone" /\ ~res.ok) => outcome = "error_returned"

=============================================================================
